---------------------------- MODULE Spec2Model ----------------------------
(***************************************************************************)
(* MARKETSCAR: the governed-action gate (src/gate/gate_controller.py), the *)
(* receipt signer (src/infra/crypto_signer.py), the canonical encoding     *)
(* (src/utils/canonical.py) and the audit log (src/audit/audit_logger.py,  *)
(* src/infra/audit_store.py).                                              *)
(*                                                                         *)
(* Python values are tagged records [t, v]; a dict is a sequence of        *)
(* [k, v] items in insertion order with distinct keys.  A float is a       *)
(* fixed-point record [nan, whole, tenth] standing for whole + tenth/10.   *)
(* Bytes produced by json.dumps are a sequence of lexemes (strings).       *)
(***************************************************************************)
EXTENDS Integers, Sequences, FiniteSets, TLC

VARIABLES
    \* ---- canonical_bytes applied to two payloads
    objA, objB, outA, outB,
    \* ---- GateController / CryptoSigner configuration and one caller
    thresholdsArg, thresholds, priv, pub, now, call, auditFile,
    \* ---- one sign and one verify of CryptoSigner
    sgSigned, sgPayload, sgSignature, sgEdit, sgOut,
    \* ---- the writers of the audit log file, its flock, and one reader
    lockHolder, writers, readOut,
    \* ---- two invocations of compute_jsd_distribution on the same arguments
    jsdArgs, runs, fpu, npGlobal,
    \* ---- controllers and the threads inside execute_pricing_action
    controllers, frames,
    \* ---- the baseline CSV, its manifest, one ReplayEngine and its generators
    csvFile, manifest, engine, gens, window

vars ==
    <<objA, objB, outA, outB,
      thresholdsArg, thresholds, priv, pub, now, call, auditFile,
      sgSigned, sgPayload, sgSignature, sgEdit, sgOut,
      lockHolder, writers, readOut,
      jsdArgs, runs, fpu, npGlobal,
      controllers, frames,
      csvFile, manifest, engine, gens, window>>

canonVars == <<objA, objB, outA, outB>>
gateVars == <<thresholdsArg, thresholds, now, call>>
keyVars == <<priv, pub>>
signerVars == <<sgSigned, sgPayload, sgSignature, sgEdit, sgOut>>
lockVars == <<lockHolder, writers, readOut>>
driftVars == <<jsdArgs, runs, fpu, npGlobal>>
concVars == <<controllers, frames>>
replayVars == <<csvFile, manifest, engine, gens, window>>

None == [t |-> "none", v |-> <<>>]
Null == [t |-> "null", v |-> <<>>]

----------------------------------------------------------------------------
(* Bounds of the model *)

MaxInt == 2          \* integer atoms 1..MaxInt inside payloads
MaxTenths == 10      \* finite drift scores -0.1, 0.0, 0.1, ..., MaxTenths/10
MaxClock == 1        \* seconds the wall clock may advance
NumKeys == 2         \* distinct RSA keypairs
NumWriters == 2      \* processes appending to the audit log
MaxChunks == 2       \* write(2) calls one record may be split into
NumControllers == 2  \* GateController objects of the process
NumCallers == 2      \* threads calling execute_pricing_action
MaxCsvRows == 2      \* data rows of the baseline CSV
MaxDate == 2         \* invoice dates 1..MaxDate
MaxEvents == 1       \* max_events in 0..MaxEvents, or None
MaxWindowDays == 1   \* window_days in 0..MaxWindowDays
NumStreams == 2      \* generators obtained from stream() on one engine

----------------------------------------------------------------------------
(* Python floats *)

F(w, d) == [nan |-> FALSE, whole |-> w, tenth |-> d]
NaN == [nan |-> TRUE, whole |-> 0, tenth |-> 0]
Tenths(n) == F(n \div 10, n % 10)

\* a >= b on floats; every comparison with NaN is false
FGe(a, b) ==
    /\ ~a.nan
    /\ ~b.nan
    /\ \/ a.whole > b.whole
       \/ a.whole = b.whole /\ a.tenth >= b.tenth

\* repr(float) as json.dumps writes it
FloatRepr(f) ==
    IF f.nan THEN "NaN"
    ELSE IF f.whole >= 0 THEN ToString(f.whole) \o "." \o ToString(f.tenth)
    ELSE IF f.tenth = 0 THEN "-" \o ToString(-f.whole) \o ".0"
    ELSE "-" \o ToString(-f.whole - 1) \o "." \o ToString(10 - f.tenth)

PyFloat(f) == [t |-> "float", v |-> f]
PyInt(n) == [t |-> "int", v |-> n]
PyStr(s) == [t |-> "str", v |-> s]
PyDict(items) == [t |-> "dict", v |-> items]
PyBytes(b) == [t |-> "bytes", v |-> b]
\* a str holding hexadecimal digits, kept as its sequence of characters
PyHex(cs) == [t |-> "hexstr", v |-> cs]

----------------------------------------------------------------------------
(* canonical_bytes: json.dumps(obj, separators=(",", ":"), sort_keys=True) *)

\* The dict keys of the model in code-point order, the order sorted() gives.
KeyOrder ==
    <<"a", "action", "action_type", "b", "diagnostics", "jsd_global",
      "new_price", "payload", "signature", "sku_id", "timestamp">>

KeyRank(k) == CHOOSE i \in 1..Len(KeyOrder) : KeyOrder[i] = k

Keys(items) == {items[i].k : i \in 1..Len(items)}

RemoveAt(s, i) == SubSeq(s, 1, i - 1) \o SubSeq(s, i + 1, Len(s))

\* the items in insertion order, as a dict without sort_keys is written
UnsortedItems(items) == items

RECURSIVE SortedItems(_)
SortedItems(items) ==
    IF items = <<>> THEN <<>>
    ELSE LET m == CHOOSE i \in 1..Len(items) :
                      \A j \in 1..Len(items) :
                          KeyRank(items[i].k) <= KeyRank(items[j].k)
         IN  <<items[m]>> \o SortedItems(RemoveAt(items, m))

ItemSeparator == ","
KeySeparator == ":"

RECURSIVE Dumps(_)
RECURSIVE DumpItems(_)
DumpItems(items) ==
    IF items = <<>> THEN <<>>
    ELSE <<"\"", items[1].k, "\"", KeySeparator>> \o Dumps(items[1].v)
         \o (IF Len(items) > 1 THEN <<ItemSeparator>> ELSE <<>>)
         \o DumpItems(Tail(items))

Dumps(x) ==
    CASE x.t = "dict" -> <<"{">> \o DumpItems(SortedItems(x.v)) \o <<"}">>
      [] x.t = "int" -> <<ToString(x.v)>>
      [] x.t = "float" -> <<FloatRepr(x.v)>>
      [] x.t = "str" -> <<"\"", x.v, "\"">>
      [] x.t = "hexstr" -> <<"\"">> \o x.v \o <<"\"">>
      [] x.t = "null" -> <<"null">>

canonical_bytes(obj) == Dumps(obj)


----------------------------------------------------------------------------
(* Payloads handed to canonical_bytes *)

Perms(S) ==
    {p \in [1..Cardinality(S) -> S] :
        \A i, j \in 1..Cardinality(S) : i # j => p[i] # p[j]}

\* every insertion order of every dict with keys S and values V[k]
DictsOver(S, V) ==
    {[i \in 1..Cardinality(S) |-> [k |-> p[i], v |-> f[p[i]]]] :
        p \in Perms(S), f \in {g \in [S -> UNION {V[k] : k \in S}] :
                                   \A k \in S : g[k] \in V[k]}}

Atoms == {PyInt(n) : n \in 1..MaxInt}

LeafDicts ==
    UNION {DictsOver(S, [k \in S |-> Atoms]) : S \in SUBSET {"a", "b"}}

TopValues == [a |-> Atoms, b |-> Atoms \cup {PyDict(d) : d \in LeafDicts}]

TopDicts ==
    {PyDict(d) : d \in UNION {DictsOver(S, [k \in S |-> TopValues[k]]) :
                                  S \in SUBSET {"a", "b"}}}

Lookup(items, k) == items[CHOOSE i \in 1..Len(items) : items[i].k = k].v

\* equality of Python values; dicts compare as mappings, whatever the order
RECURSIVE PyEq(_, _)
PyEq(x, y) ==
    IF x.t = "dict" /\ y.t = "dict"
    THEN /\ Keys(x.v) = Keys(y.v)
         /\ \A k \in Keys(x.v) : PyEq(Lookup(x.v, k), Lookup(y.v, k))
    ELSE x.t = y.t /\ x = y

NotRun == [done |-> FALSE, bytes |-> <<>>]
Ran(b) == [done |-> TRUE, bytes |-> b]

InitCanonVars ==
    /\ objA \in TopDicts
    /\ objB \in TopDicts
    /\ outA = NotRun
    /\ outB = NotRun

CanonicalizeA ==
    /\ ~outA.done
    /\ outA' = Ran(canonical_bytes(objA))
    /\ UNCHANGED <<objA, objB, outB>>

CanonicalizeB ==
    /\ ~outB.done
    /\ outB' = Ran(canonical_bytes(objB))
    /\ UNCHANGED <<objA, objB, outA>>


----------------------------------------------------------------------------
(* binascii.hexlify / binascii.unhexlify; a byte is a number in 0..255 and *)
(* a hex str is the sequence of its characters                             *)

HexDigits ==
    <<"0", "1", "2", "3", "4", "5", "6", "7", "8", "9",
      "a", "b", "c", "d", "e", "f">>

UpperHex == <<"A", "B", "C", "D", "E", "F">>

\* the value of one hex character, -1 when it is none
HexVal(c) ==
    IF \E i \in 1..16 : HexDigits[i] = c
    THEN (CHOOSE i \in 1..16 : HexDigits[i] = c) - 1
    ELSE IF \E i \in 1..6 : UpperHex[i] = c
    THEN (CHOOSE i \in 1..6 : UpperHex[i] = c) + 9
    ELSE -1

hexlify(bytes) ==
    [i \in 1..(2 * Len(bytes)) |->
        IF i % 2 = 1 THEN HexDigits[(bytes[(i + 1) \div 2] \div 16) + 1]
                     ELSE HexDigits[(bytes[i \div 2] % 16) + 1]]

\* ok = FALSE stands for binascii.Error (odd length, or a non-hex character)
unhexlify(hex) ==
    IF Len(hex) % 2 = 1 \/ \E i \in 1..Len(hex) : HexVal(hex[i]) < 0
    THEN [ok |-> FALSE, bytes |-> <<>>]
    ELSE [ok |-> TRUE,
          bytes |-> [i \in 1..(Len(hex) \div 2) |->
                        16 * HexVal(hex[2 * i - 1]) + HexVal(hex[2 * i])]]


----------------------------------------------------------------------------
(* Values of the gate and signer model *)

Zero == F(0, 0)
\* 1e9, the default of an absent threshold
Disabled == F(1000000000, 0)

FiniteScores == {Tenths(n) : n \in (-1)..MaxTenths}
ScoreFloats == FiniteScores \cup {Disabled, NaN}
ThresholdValues == {Tenths(0), Tenths(5), Tenths(8)}

Timestamp(n) == "2026-01-01T00:00:0" \o ToString(n) \o "Z"

ActionTypes == {"publish_price"}
Actions == {"OPEN", "THROTTLE", "HARD_LOCK"}

Payloads ==
    {PyDict(<<[k |-> "sku_id", v |-> PyStr("SKU-123")],
              [k |-> "new_price", v |-> PyFloat(F(10, 0))]>>),
     PyDict(<<[k |-> "new_price", v |-> PyInt(1)]>>)}

\* every lexeme json.dumps can emit for the values of the model
AllLexemes ==
    {"{", "}", ":", ",", "\"", "null", " ", "high"}
    \cup {KeyOrder[i] : i \in 1..Len(KeyOrder)}
    \cup {FloatRepr(f) : f \in ScoreFloats \cup {F(10, 0)}}
    \cup {ToString(n) : n \in 0..(MaxInt + 1)}
    \cup {Timestamp(n) : n \in 0..(MaxClock + 1)}
    \cup ActionTypes \cup Actions \cup {"SKU-123", "withdraw_price"}
    \cup {HexDigits[i] : i \in 1..16}

RECURSIVE SetToSeq(_)
SetToSeq(S) ==
    IF S = {} THEN <<>>
    ELSE LET x == CHOOSE y \in S : TRUE IN <<x>> \o SetToSeq(S \ {x})

LexemeTable == SetToSeq(AllLexemes)

\* the byte standing for one lexeme
LexCode(tok) == CHOOSE i \in 1..Len(LexemeTable) : LexemeTable[i] = tok

----------------------------------------------------------------------------
(* The RSA primitive of the cryptography package, idealised: PKCS#1 v1.5   *)
(* over SHA-256 is deterministic and no two messages share a digest, so a  *)
(* signature is the key's byte followed by the message's bytes.            *)

NoKey == 0
KeyIds == 1..NumKeys

PrivSign(k, m) == <<k>> \o [i \in 1..Len(m) |-> LexCode(m[i])]

\* FALSE stands for InvalidSignature
PubVerify(k, sig, m) == sig = PrivSign(k, m)

----------------------------------------------------------------------------
(* CryptoSigner *)

_to_bytes(payload) ==
    IF payload.t = "bytes" THEN payload.v ELSE canonical_bytes(payload)

Raised(e) == [err |-> e, val |-> <<>>]
Returned(x) == [err |-> "none", val |-> x]

\* a sign that hands back an empty signature when no private key is loaded
sign_without_key_check(privk, payload) ==
    IF privk = NoKey THEN Returned(<<>>)
    ELSE Returned(hexlify(PrivSign(privk, _to_bytes(payload))))

sign(privk, payload) ==
    IF privk = NoKey THEN Raised("RuntimeError")
    ELSE Returned(hexlify(PrivSign(privk, _to_bytes(payload))))

verify(pubk, payload, signature_hex) ==
    IF pubk = NoKey THEN Raised("RuntimeError")
    ELSE LET payload_bytes == _to_bytes(payload)
             sig == unhexlify(signature_hex)
         IN  IF ~sig.ok THEN Raised("binascii.Error")
             ELSE Returned(PubVerify(pubk, sig.bytes, payload_bytes))


----------------------------------------------------------------------------
(* GateController *)

\* Python truth value of the constructor's thresholds argument
Truthy(x) == ~(x.t = "none" \/ (x.t = "dict" /\ x.v = <<>>))

DefaultThresholds ==
    PyDict(<<[k |-> "jsd_global_95", v |-> PyFloat(Tenths(5))],
             [k |-> "jsd_global_99", v |-> PyFloat(Tenths(8))]>>)

\* self.thresholds = thresholds or {...}
GateController_init(arg) == IF Truthy(arg) THEN arg ELSE DefaultThresholds

\* dict.get(k, default)
DictGet(d, k, default) ==
    IF k \in Keys(d.v) THEN Lookup(d.v, k) ELSE default

\* float(x)
PyFloatOf(x) ==
    CASE x.t = "float" -> Returned(x.v)
      [] x.t = "int" -> Returned(F(x.v, 0))
      [] x.t = "str" -> Raised("ValueError")
      [] OTHER -> Raised("TypeError")

\* the two comparisons with > in place of >=
_decide_strict(th, diagnostics) ==
    LET jsd == PyFloatOf(DictGet(diagnostics, "jsd_global", PyFloat(Zero)))
        t99 == PyFloatOf(DictGet(th, "jsd_global_99", PyFloat(Disabled)))
        t95 == PyFloatOf(DictGet(th, "jsd_global_95", PyFloat(Disabled)))
    IN  IF jsd.err # "none" THEN Raised(jsd.err)
        ELSE IF FGe(jsd.val, t99.val) /\ jsd.val # t99.val
        THEN Returned("HARD_LOCK")
        ELSE IF FGe(jsd.val, t95.val) /\ jsd.val # t95.val
        THEN Returned("THROTTLE")
        ELSE Returned("OPEN")

\* the THROTTLE test made before the HARD_LOCK test
_decide_throttle_first(th, diagnostics) ==
    LET jsd == PyFloatOf(DictGet(diagnostics, "jsd_global", PyFloat(Zero)))
        t99 == PyFloatOf(DictGet(th, "jsd_global_99", PyFloat(Disabled)))
        t95 == PyFloatOf(DictGet(th, "jsd_global_95", PyFloat(Disabled)))
    IN  IF jsd.err # "none" THEN Raised(jsd.err)
        ELSE IF FGe(jsd.val, t95.val) THEN Returned("THROTTLE")
        ELSE IF FGe(jsd.val, t99.val) THEN Returned("HARD_LOCK")
        ELSE Returned("OPEN")

_decide(th, diagnostics) ==
    LET jsd == PyFloatOf(DictGet(diagnostics, "jsd_global", PyFloat(Zero)))
        t99 == PyFloatOf(DictGet(th, "jsd_global_99", PyFloat(Disabled)))
        t95 == PyFloatOf(DictGet(th, "jsd_global_95", PyFloat(Disabled)))
    IN  IF jsd.err # "none" THEN Raised(jsd.err)
        ELSE IF t99.err # "none" THEN Raised(t99.err)
        ELSE IF FGe(jsd.val, t99.val) THEN Returned("HARD_LOCK")
        ELSE IF t95.err # "none" THEN Raised(t95.err)
        ELSE IF FGe(jsd.val, t95.val) THEN Returned("THROTTLE")
        ELSE Returned("OPEN")

\* a receipt payload that records OPEN whatever was decided
ReceiptPayloadAlwaysOpen(t, action_type, payload, action, diagnostics) ==
    PyDict(<<[k |-> "timestamp", v |-> PyStr(Timestamp(t))],
             [k |-> "action_type", v |-> PyStr(action_type)],
             [k |-> "payload", v |-> payload],
             [k |-> "action", v |-> PyStr("OPEN")],
             [k |-> "diagnostics", v |-> diagnostics]>>)

ReceiptPayload(t, action_type, payload, action, diagnostics) ==
    PyDict(<<[k |-> "timestamp", v |-> PyStr(Timestamp(t))],
             [k |-> "action_type", v |-> PyStr(action_type)],
             [k |-> "payload", v |-> payload],
             [k |-> "action", v |-> PyStr(action)],
             [k |-> "diagnostics", v |-> diagnostics]>>)

NoResult ==
    [action |-> "", diagnostics |-> PyDict(<<>>),
     receipt |-> [payload |-> PyDict(<<>>), signature |-> <<>>]]

Outcome(status, error, result) ==
    [status |-> status, error |-> error, result |-> result]

\* the signature taken over the input payload, not over the receipt payload
execute_signing_input_payload(th, privk, t, action_type, payload, context) ==
    LET score == PyFloatOf(DictGet(context, "jsd_global", PyFloat(Zero)))
        diagnostics == PyDict(<<[k |-> "jsd_global", v |-> PyFloat(score.val)]>>)
        decided == _decide(th, diagnostics)
        receipt_payload ==
            ReceiptPayload(t, action_type, payload, decided.val, diagnostics)
        sig == sign(privk, payload)
    IN  IF score.err # "none" THEN Outcome("raised", score.err, NoResult)
        ELSE IF decided.err # "none" THEN Outcome("raised", decided.err, NoResult)
        ELSE IF sig.err # "none" THEN Outcome("raised", sig.err, NoResult)
        ELSE Outcome("returned", "none",
                     [action |-> decided.val, diagnostics |-> diagnostics,
                      receipt |-> [payload |-> receipt_payload,
                                   signature |-> sig.val]])

\* what one call does, given the controller's configuration and the clock
execute_pricing_action(th, privk, t, action_type, payload, context) ==
    LET score == PyFloatOf(DictGet(context, "jsd_global", PyFloat(Zero)))
        diagnostics == PyDict(<<[k |-> "jsd_global", v |-> PyFloat(score.val)]>>)
        decided == _decide(th, diagnostics)
        receipt_payload ==
            ReceiptPayload(t, action_type, payload, decided.val, diagnostics)
        sig == sign(privk, receipt_payload)
    IN  IF score.err # "none" THEN Outcome("raised", score.err, NoResult)
        ELSE IF decided.err # "none" THEN Outcome("raised", decided.err, NoResult)
        ELSE IF sig.err # "none" THEN Outcome("raised", sig.err, NoResult)
        ELSE Outcome("returned", "none",
                     [action |-> decided.val, diagnostics |-> diagnostics,
                      receipt |-> [payload |-> receipt_payload,
                                   signature |-> sig.val]])


----------------------------------------------------------------------------
(* The governed-action entrypoint: one controller, one signer, one caller  *)

ThresholdDicts ==
    {PyDict(<<>>)}
    \cup {PyDict(<<[k |-> "jsd_global_95", v |-> PyFloat(a)]>>) :
            a \in ThresholdValues}
    \cup {PyDict(<<[k |-> "jsd_global_99", v |-> PyFloat(b)]>>) :
            b \in ThresholdValues}
    \cup {PyDict(<<[k |-> "jsd_global_95", v |-> PyFloat(a)],
                   [k |-> "jsd_global_99", v |-> PyFloat(b)]>>) :
            a \in ThresholdValues, b \in ThresholdValues}

ThresholdArgs == {None} \cup ThresholdDicts

ContextValues ==
    {PyFloat(f) : f \in ScoreFloats}
    \cup {PyInt(0), PyInt(1), PyStr("high"), Null}

Contexts ==
    {PyDict(<<>>)}
    \cup {PyDict(<<[k |-> "jsd_global", v |-> x]>>) : x \in ContextValues}

Idle == Outcome("idle", "none", NoResult)

NoCall ==
    [op |-> "", action_type |-> "", payload |-> PyDict(<<>>),
     context |-> PyDict(<<>>), out |-> Idle]

InitGateVars ==
    /\ thresholdsArg \in ThresholdArgs
    /\ thresholds = GateController_init(thresholdsArg)
    /\ now = 0
    /\ call = NoCall
    /\ auditFile = <<>>

\* a caller's execute_pricing_action(action_type, payload, context); the
\* controller holds no AuditLogger and the call appends nothing to the log
ExecutePricingAction ==
    \E action_type \in ActionTypes, payload \in Payloads, context \in Contexts :
        /\ call.out.status = "idle"
        /\ call' = [op |-> "execute_pricing_action",
                    action_type |-> action_type, payload |-> payload,
                    context |-> context,
                    out |-> execute_pricing_action(thresholds, priv, now,
                                                   action_type, payload, context)]
        /\ UNCHANGED <<thresholdsArg, thresholds, priv, pub, now, auditFile>>

\* a direct gc._decide(diagnostics)
Decide ==
    \E diagnostics \in Contexts :
        /\ call.out.status = "idle"
        /\ call' = [op |-> "_decide", action_type |-> "",
                    payload |-> PyDict(<<>>), context |-> diagnostics,
                    out |-> LET d == _decide(thresholds, diagnostics)
                            IN  IF d.err # "none"
                                THEN Outcome("raised", d.err, NoResult)
                                ELSE Outcome("returned", "none",
                                             [NoResult EXCEPT !.action = d.val])]
        /\ UNCHANGED <<thresholdsArg, thresholds, priv, pub, now, auditFile>>

\* the caller has taken the result, or caught the exception, and may call again
CallerContinues ==
    /\ call.out.status # "idle"
    /\ call' = NoCall
    /\ UNCHANGED <<thresholdsArg, thresholds, priv, pub, now, auditFile>>

\* time.gmtime() moves on
Tick ==
    /\ now < MaxClock
    /\ now' = now + 1
    /\ UNCHANGED <<thresholdsArg, thresholds, priv, pub, call, auditFile>>

----------------------------------------------------------------------------
(* The audit log file as records *)

\* the delimited records of a log file: the lexemes between two "\n"
LogRecords(file) ==
    LET ends == {m \in 1..Len(file) : file[m] = "\n"}
        starts == {1} \cup {m + 1 : m \in ends}
        spans == {p \in starts \X ends :
                     /\ p[1] <= p[2]
                     /\ \A m \in p[1]..(p[2] - 1) : file[m] # "\n"}
    IN  {SubSeq(file, p[1], p[2] - 1) : p \in spans}

ReceiptDict(receipt) ==
    PyDict(<<[k |-> "payload", v |-> receipt.payload],
             [k |-> "signature", v |-> PyHex(receipt.signature)]>>)


----------------------------------------------------------------------------
(* Claims about the gate *)

\* the drift score a call was given: jsd_global, 0.0 when absent
GivenScore == PyFloatOf(DictGet(call.context, "jsd_global", PyFloat(Zero))).val

\* a configured threshold, 1e9 when the key is absent
Threshold(key) == DictGet(thresholds, key, PyFloat(Disabled)).v

HasKey(d, key) == d.t = "dict" /\ key \in Keys(d.v)

DecisionReturned == call.out.status = "returned"
ExecuteReturned ==
    call.op = "execute_pricing_action" /\ call.out.status = "returned"

\* C1: every decision follows the rule: HARD_LOCK if jsd_global >=
\* jsd_global_99, otherwise THROTTLE if jsd_global >= jsd_global_95,
\* otherwise OPEN, the HARD_LOCK test first (an absent threshold counting
\* as 1e9 and an absent jsd_global as 0.0).
C1_DecideFollowsRule ==
    DecisionReturned =>
        call.out.result.action =
            IF FGe(GivenScore, Threshold("jsd_global_99")) THEN "HARD_LOCK"
            ELSE IF FGe(GivenScore, Threshold("jsd_global_95")) THEN "THROTTLE"
            ELSE "OPEN"

\* both comparisons hold with jsd_global_95 above jsd_global_99, and
\* HARD_LOCK was returned by a direct _decide
C1_Witness ==
    /\ DecisionReturned
    /\ call.op = "_decide"
    /\ HasKey(thresholds, "jsd_global_95")
    /\ HasKey(thresholds, "jsd_global_99")
    /\ Threshold("jsd_global_95") = Tenths(8)
    /\ Threshold("jsd_global_99") = Tenths(5)
    /\ FGe(GivenScore, Threshold("jsd_global_95"))
    /\ call.out.result.action = "HARD_LOCK"

\* C2: with jsd_global_99 = 0.0 configured, every call that returns,
\* returns HARD_LOCK, whatever jsd_global the context holds.
C2_ZeroThresholdAlwaysLocks ==
    (/\ ExecuteReturned
     /\ HasKey(thresholds, "jsd_global_99")
     /\ Threshold("jsd_global_99") = Zero)
        => call.out.result.action = "HARD_LOCK"

InUnitInterval(f) == FGe(f, Zero) /\ FGe(F(1, 0), f)

\* C3: a threshold absent from the constructor's thresholds (None and the
\* empty mapping included) disables its tier for every jsd_global in [0,1].
C3_AbsentThresholdDisablesTier ==
    (ExecuteReturned /\ InUnitInterval(GivenScore)) =>
        /\ ~HasKey(thresholdsArg, "jsd_global_99")
               => call.out.result.action # "HARD_LOCK"
        /\ ~HasKey(thresholdsArg, "jsd_global_95")
               => call.out.result.action # "THROTTLE"

\* C4: whenever a decision has been returned, the audit log holds its
\* signed receipt.
C4_ReturnedDecisionIsLogged ==
    ExecuteReturned =>
        canonical_bytes(ReceiptDict(call.out.result.receipt))
            \in LogRecords(auditFile)

\* C5: the returned receipt verifies under the public key paired with the
\* signer's private key.
C5_ReceiptVerifies ==
    (ExecuteReturned /\ pub # NoKey /\ pub = priv) =>
        LET v == verify(pub, call.out.result.receipt.payload,
                        call.out.result.receipt.signature)
        IN  v.err = "none" /\ v.val = TRUE

C5_Witness ==
    /\ ExecuteReturned
    /\ pub # NoKey
    /\ pub = priv
    /\ Len(call.payload.v) = 2
    /\ call.out.result.action = "THROTTLE"
    /\ now = 1
    /\ verify(pub, call.out.result.receipt.payload,
              call.out.result.receipt.signature).val = TRUE

\* C6: with no private key loaded, sign raises and returns no signature,
\* and the call fails as a whole: nothing is returned to the caller.
C6_NoKeyNoDecision ==
    priv = NoKey =>
        /\ sign(priv, call.payload).err = "RuntimeError"
        /\ sign(priv, call.payload).val = <<>>
        /\ call.op = "execute_pricing_action" =>
               /\ call.out.status = "raised"
               /\ call.out.result = NoResult
               /\ PyFloatOf(DictGet(call.context, "jsd_global",
                                    PyFloat(Zero))).err = "none"
                      => call.out.error = "RuntimeError"

C6_Witness ==
    /\ priv = NoKey
    /\ call.op = "execute_pricing_action"
    /\ call.out.status = "raised"
    /\ call.out.error = "RuntimeError"
    /\ call.out.result = NoResult


\* C19: the decision step never fails: whatever the diagnostic context
\* (jsd_global absent, numeric, non-numeric or null) and the thresholds, it
\* returns one of OPEN, THROTTLE, HARD_LOCK and raises no error, and an
\* absent jsd_global counts as 0.0.
C19_DecisionNeverFails ==
    /\ (call.op = "_decide" /\ call.out.status # "idle") =>
           /\ call.out.status = "returned"
           /\ call.out.result.action \in Actions
    /\ (call.op = "execute_pricing_action" /\ call.out.status # "idle") =>
           /\ call.out.error \notin {"TypeError", "ValueError"}
           /\ call.out.status = "returned" =>
                  call.out.result.action \in Actions
    /\ (DecisionReturned /\ ~HasKey(call.context, "jsd_global")) =>
           GivenScore = Zero

\* the order OPEN < THROTTLE < HARD_LOCK
TierRank(action) ==
    CASE action = "OPEN" -> 0
      [] action = "THROTTLE" -> 1
      [] action = "HARD_LOCK" -> 2

ScoreDict(f) == PyDict(<<[k |-> "jsd_global", v |-> PyFloat(f)]>>)

\* C28: the decision is monotone in the drift score: under the thresholds of
\* the controller, whatever their order, every score at or above the score
\* of a returned decision gets a tier at least as restrictive, in the order
\* OPEN < THROTTLE < HARD_LOCK.
C28_DecisionMonotone ==
    DecisionReturned =>
        \A jsd_b \in ScoreFloats :
            FGe(jsd_b, GivenScore) =>
                LET later == _decide(thresholds, ScoreDict(jsd_b))
                IN  /\ later.err = "none"
                    /\ TierRank(later.val) >= TierRank(call.out.result.action)

\* jsd_global_95 above jsd_global_99, and a score between the two was
\* decided HARD_LOCK
C28_Witness ==
    /\ DecisionReturned
    /\ HasKey(thresholds, "jsd_global_95")
    /\ HasKey(thresholds, "jsd_global_99")
    /\ Threshold("jsd_global_95") = Tenths(8)
    /\ Threshold("jsd_global_99") = Tenths(5)
    /\ GivenScore = Tenths(6)
    /\ call.out.result.action = "HARD_LOCK"
    /\ _decide(thresholds, ScoreDict(Tenths(9))).val = "HARD_LOCK"

\* C29: in every result of execute_pricing_action the signed receipt agrees
\* with what the caller is told: its action and diagnostics are the returned
\* action and diagnostics, its action_type and payload are the arguments of
\* the call.
C29_ReceiptAgreesWithResult ==
    ExecuteReturned =>
        LET signed == call.out.result.receipt.payload
        IN  /\ HasKey(signed, "action")
            /\ Lookup(signed.v, "action") = PyStr(call.out.result.action)
            /\ Lookup(signed.v, "diagnostics") = call.out.result.diagnostics
            /\ Lookup(signed.v, "action_type") = PyStr(call.action_type)
            /\ Lookup(signed.v, "payload") = call.payload

\* a HARD_LOCK returned for a two-field payload and a score from the context
C29_Witness ==
    /\ ExecuteReturned
    /\ call.out.result.action = "HARD_LOCK"
    /\ HasKey(call.context, "jsd_global")
    /\ Len(call.payload.v) = 2
    /\ Lookup(call.out.result.receipt.payload.v, "action") = PyStr("HARD_LOCK")
    /\ Lookup(call.out.result.receipt.payload.v, "payload") = call.payload

----------------------------------------------------------------------------
(* Claims about canonical_bytes *)

IsKeyAt(toks, i) ==
    /\ i > 1
    /\ i + 2 <= Len(toks)
    /\ toks[i - 1] = "\""
    /\ toks[i + 1] = "\""
    /\ toks[i + 2] = ":"

\* nesting depth of position i: dicts opened and not yet closed before it
Depth(toks, i) ==
    Cardinality({n \in 1..(i - 1) : toks[n] = "{"})
    - Cardinality({n \in 1..(i - 1) : toks[n] = "}"})

\* two keys of one dict: same depth, and the dict is not closed in between
SameDict(toks, i, j) ==
    /\ Depth(toks, i) = Depth(toks, j)
    /\ \A n \in i..j : Depth(toks, n) >= Depth(toks, i)

KeysSorted(toks) ==
    \A i, j \in 1..Len(toks) :
        (i < j /\ IsKeyAt(toks, i) /\ IsKeyAt(toks, j) /\ SameDict(toks, i, j))
            => KeyRank(toks[i]) < KeyRank(toks[j])

\* the lexemes of a dict of integers written with separators "," and ":"
MinimalLexemes ==
    {"{", "}", ",", ":", "\"", "a", "b"} \cup {ToString(n) : n \in 1..MaxInt}

WellFormed(toks) ==
    KeysSorted(toks) /\ \A i \in 1..Len(toks) : toks[i] \in MinimalLexemes

\* C9: payloads equal as mappings at every nesting level canonicalize to
\* the same bytes, with the keys of each dict in sorted order and the
\* separators "," and ":" only.
C9_CanonicalOrderInvariant ==
    /\ (outA.done /\ outB.done /\ PyEq(objA, objB)) => outA.bytes = outB.bytes
    /\ outA.done => WellFormed(outA.bytes)
    /\ outB.done => WellFormed(outB.bytes)

\* {"b": {"b": 2, "a": 1}, "a": 1} and {"a": 1, "b": {"a": 1, "b": 2}}
C9_Witness ==
    /\ outA.done
    /\ outB.done
    /\ objA = PyDict(<<[k |-> "b", v |-> PyDict(<<[k |-> "b", v |-> PyInt(2)],
                                                  [k |-> "a", v |-> PyInt(1)]>>)],
                       [k |-> "a", v |-> PyInt(1)]>>)
    /\ objB = PyDict(<<[k |-> "a", v |-> PyInt(1)],
                       [k |-> "b", v |-> PyDict(<<[k |-> "a", v |-> PyInt(1)],
                                                  [k |-> "b", v |-> PyInt(2)]>>)]>>)
    /\ PyEq(objA, objB)
    /\ outA.bytes = <<"{", "\"", "a", "\"", ":", "1", ",", "\"", "b", "\"", ":",
                      "{", "\"", "a", "\"", ":", "1", ",",
                      "\"", "b", "\"", ":", "2", "}", "}">>
    /\ outB.bytes = outA.bytes


----------------------------------------------------------------------------
(* One sign, an edit of what was signed, one verify *)

MaxSigLen == 2       \* length of the arbitrary signature strings tried

SignerPayloads ==
    Payloads \cup {PyDict(<<[k |-> "new_price", v |-> PyInt(n)]>>) : n \in 1..MaxInt}

NotVerified == [err |-> "unset", val |-> FALSE]

\* the other spelling of a hex letter: "a" and "A" differ in one bit
OtherCase(c) ==
    IF \E n \in 1..6 : HexDigits[10 + n] = c
    THEN UpperHex[CHOOSE n \in 1..6 : HexDigits[10 + n] = c]
    ELSE c

ReplacementChars(c) == ({"0", "f", "g"} \cup {OtherCase(c)}) \ {c}

ArbitrarySignatures ==
    UNION {[1..n -> {"0", "a", "g"}] : n \in 0..MaxSigLen}

\* canonical bytes of the same length that differ in exactly one lexeme
OneLexemeApart(p, q) ==
    LET a == canonical_bytes(p)
        b == canonical_bytes(q)
    IN  /\ Len(a) = Len(b)
        /\ Cardinality({i \in 1..Len(a) : a[i] # b[i]}) = 1

InitSignerVars ==
    /\ sgSigned = None
    /\ sgPayload = None
    /\ sgSignature = <<>>
    /\ sgEdit = "none"
    /\ sgOut = NotVerified

InitKeys ==
    /\ priv \in {NoKey} \cup KeyIds
    /\ pub \in {NoKey} \cup KeyIds

\* signer.sign(p); with no private key it raises and there is no signature
SignPayload ==
    \E p \in SignerPayloads :
        LET s == sign(priv, p)
        IN  /\ sgSigned = None
            /\ s.err = "none"
            /\ sgSigned' = p
            /\ sgPayload' = p
            /\ sgSignature' = s.val
            /\ UNCHANGED <<sgEdit, sgOut>>

\* a dict serialised by its caller in insertion order
PlainJson(p) == <<"{">> \o DumpItems(p.v) \o <<"}">>

\* payloads that are bytes already: canonical and non-canonical encodings
RawPayloads ==
    {PyBytes(canonical_bytes(p)) : p \in SignerPayloads}
    \cup {PyBytes(PlainJson(p)) : p \in SignerPayloads}

\* signer.sign(raw) with raw a bytes object
SignBytes ==
    \E raw \in RawPayloads :
        LET s == sign(priv, raw)
        IN  /\ sgSigned = None
            /\ s.err = "none"
            /\ sgSigned' = raw
            /\ sgPayload' = raw
            /\ sgSignature' = s.val
            /\ UNCHANGED <<sgEdit, sgOut>>

Editable == sgSigned # None /\ sgEdit = "none" /\ sgOut = NotVerified

\* one character of the hex signature is changed
ReplaceSignatureChar ==
    \E i \in 1..Len(sgSignature) :
        \E c \in ReplacementChars(sgSignature[i]) :
            /\ Editable
            /\ sgSignature' = [sgSignature EXCEPT ![i] = c]
            /\ sgEdit' = "signature"
            /\ UNCHANGED <<sgSigned, sgPayload, sgOut>>

\* the last character of the hex signature is lost
TruncateSignature ==
    /\ Editable
    /\ sgSignature' = SubSeq(sgSignature, 1, Len(sgSignature) - 1)
    /\ sgEdit' = "truncated"
    /\ UNCHANGED <<sgSigned, sgPayload, sgOut>>

\* some other string is presented as the signature
SubstituteSignature ==
    \E s \in ArbitrarySignatures :
        /\ Editable
        /\ sgSignature' = s
        /\ sgEdit' = "substituted"
        /\ UNCHANGED <<sgSigned, sgPayload, sgOut>>

\* one byte of the payload is changed
ChangePayload ==
    \E q \in SignerPayloads :
        /\ Editable
        /\ sgPayload.t = "dict"
        /\ OneLexemeApart(sgPayload, q)
        /\ sgPayload' = q
        /\ sgEdit' = "payload"
        /\ UNCHANGED <<sgSigned, sgSignature, sgOut>>

\* what a stored receipt payload may hold, before or after an edit
StoredActionTypes == ActionTypes \cup {"withdraw_price"}
StoredScores == {Zero, Tenths(5)}
StoredReceiptPayloads ==
    {ReceiptPayload(t, at, p, a,
                    PyDict(<<[k |-> "jsd_global", v |-> PyFloat(s)]>>)) :
        t \in 0..MaxClock, at \in StoredActionTypes, p \in Payloads,
        a \in Actions, s \in StoredScores}

ReceiptFields ==
    {"timestamp", "action_type", "payload", "action", "diagnostics"}

IsReceiptPayload(p) == HasKey(p, "timestamp")

\* execute_pricing_action signs a receipt payload, and the receipt is stored
SignReceipt ==
    \E t \in 0..MaxClock, p \in Payloads, s \in StoredScores :
        LET out == execute_pricing_action(
                       DefaultThresholds, priv, t, "publish_price", p,
                       PyDict(<<[k |-> "jsd_global", v |-> PyFloat(s)]>>))
        IN  /\ sgSigned = None
            /\ out.status = "returned"
            /\ sgSigned' = out.result.receipt.payload
            /\ sgPayload' = out.result.receipt.payload
            /\ sgSignature' = out.result.receipt.signature
            /\ UNCHANGED <<sgEdit, sgOut>>

\* one field of the stored receipt payload is given another value
EditReceiptField ==
    \E q \in StoredReceiptPayloads, f \in ReceiptFields :
        /\ Editable
        /\ IsReceiptPayload(sgPayload)
        /\ \A k \in ReceiptFields :
               (Lookup(sgPayload.v, k) # Lookup(q.v, k)) <=> (k = f)
        /\ sgPayload' = q
        /\ sgEdit' = f
        /\ UNCHANGED <<sgSigned, sgSignature, sgOut>>

\* signer.verify(payload, signature)
Verify ==
    /\ sgSigned # None
    /\ sgOut = NotVerified
    /\ sgOut' = verify(pub, sgPayload, sgSignature)
    /\ UNCHANGED <<sgSigned, sgPayload, sgSignature, sgEdit>>

----------------------------------------------------------------------------
(* Claims about CryptoSigner *)

Verified == sgOut.err # "unset"

\* C7: with a public key loaded, verify returns false and never raises for
\* a malformed or mismatched signature string (not hexadecimal, or of odd
\* length); it raises only when no public key is loaded.
C7_VerifyNeverRaisesWithKey ==
    Verified =>
        /\ pub # NoKey => sgOut.err = "none"
        /\ (pub # NoKey /\ ~unhexlify(sgSignature).ok)
               => (sgOut.err = "none" /\ sgOut.val = FALSE)
        /\ sgOut.err # "none" => pub = NoKey

\* C8: under the matching public key, verify(p, sign(p)) is true, and it
\* returns false once one byte of the signature or of the payload is changed.
C8_RoundTripAndTamper ==
    (Verified /\ pub = priv) =>
        /\ sgEdit = "none" => (sgOut.err = "none" /\ sgOut.val = TRUE)
        /\ sgEdit \in {"signature", "payload"}
               => (sgOut.err = "none" /\ sgOut.val = FALSE)

\* an edit of one field of the signed receipt payload makes verify return false
ReceiptFieldEditsDetected ==
    (Verified /\ pub = priv /\ sgEdit \in ReceiptFields) =>
        (sgOut.err = "none" /\ sgOut.val = FALSE)

\* C20: the signature of a receipt covers timestamp, action_type, action,
\* diagnostics and the input payload: once any one of these fields of a
\* stored receipt's payload, or its signature, is changed after signing,
\* verify returns false for that record.
C20_ReceiptEditsDetected ==
    (Verified /\ pub = priv /\ IsReceiptPayload(sgSigned)) =>
        (sgEdit \in ReceiptFields \cup {"signature"}
            => (sgOut.err = "none" /\ sgOut.val = FALSE))

\* the signature primitive was handed the bytes m
SignedOver(m) == sgSignature = hexlify(PrivSign(priv, m))

\* structured payloads are signed over their canonical bytes
StructuredSignedCanonically ==
    (sgSigned # None /\ sgEdit = "none" /\ sgSigned.t # "bytes") =>
        SignedOver(canonical_bytes(sgSigned))

\* C27: sign only ever signs canonical bytes: for every payload it accepts,
\* a structured value or raw bytes, the bytes handed to the signature
\* primitive are the canonical bytes of the payload (for raw bytes, the
\* canonical bytes of a structured payload).
C27_OnlyCanonicalBytesSigned ==
    (sgSigned # None /\ sgEdit = "none") =>
        IF sgSigned.t = "bytes"
        THEN \E x \in SignerPayloads : SignedOver(canonical_bytes(x))
        ELSE SignedOver(canonical_bytes(sgSigned))

----------------------------------------------------------------------------
(* Writers of the audit log: AuditLogger.append and append_receipt_atomic. *)
(* The file is opened "ab" (O_APPEND): each write(2) lands at the end of   *)
(* the file as one piece, but a write may be short, and the buffered       *)
(* writer then issues the rest of the record in a further write.           *)

Writers == 1..NumWriters
Unlocked == 0

LogReceipts == {PyDict(<<[k |-> "a", v |-> PyInt(n)]>>) : n \in 1..MaxInt}

IdleWriter ==
    [api |-> "", pc |-> "idle", receipt |-> None, pending |-> <<>>,
     written |-> <<>>, chunks |-> 0, endsAt |-> 0, returned |-> 0]

\* how many append calls have returned
NumReturned == Cardinality({w \in Writers : writers[w].pc = "done"})

\* read_all has not been called
NotRead == [done |-> FALSE, at |-> 0, res |-> [err |-> "unset", val |-> <<>>]]

InitLockVars ==
    /\ lockHolder = Unlocked
    /\ writers = [w \in Writers |-> IdleWriter]
    /\ readOut = NotRead

\* b = canonical_bytes(receipt); open(path, "ab")
AppendBegin(w) ==
    \E api \in {"AuditLogger.append", "append_receipt_atomic"},
       receipt \in LogReceipts :
        /\ writers[w].pc = "idle"
        /\ writers' = [writers EXCEPT ![w] =
               [api |-> api, pc |-> "opened", receipt |-> receipt,
                pending |-> canonical_bytes(receipt) \o <<"\n">>,
                written |-> <<>>, chunks |-> 0, endsAt |-> 0,
                returned |-> 0]]
        /\ UNCHANGED <<auditFile, lockHolder, readOut>>

\* fcntl.flock(fh, LOCK_EX): waits until no one holds the lock
Flock(w) ==
    /\ writers[w].api = "append_receipt_atomic"
    /\ writers[w].pc = "opened"
    /\ lockHolder = Unlocked
    /\ lockHolder' = w
    /\ writers' = [writers EXCEPT ![w].pc = "locked"]
    /\ UNCHANGED <<auditFile, readOut>>

\* where the record's first byte may be written from
ReadyToWrite(w) ==
    \/ writers[w].api = "AuditLogger.append" /\ writers[w].pc = "opened"
    \/ writers[w].api = "append_receipt_atomic" /\ writers[w].pc = "locked"
    \/ writers[w].pc = "writing"

\* fh.write(b + b"\n"); fh.flush(): one write(2) of the n bytes it takes
WriteSome(w) ==
    \E n \in 1..Len(writers[w].pending) :
        LET wr == writers[w]
        IN  /\ ReadyToWrite(w)
            /\ n < Len(wr.pending) => wr.chunks + 1 < MaxChunks
            /\ auditFile' = auditFile \o SubSeq(wr.pending, 1, n)
            /\ writers' = [writers EXCEPT ![w] =
                   [api |-> wr.api,
                    pc |-> IF n = Len(wr.pending) THEN "written" ELSE "writing",
                    receipt |-> wr.receipt,
                    pending |-> SubSeq(wr.pending, n + 1, Len(wr.pending)),
                    written |-> wr.written \o SubSeq(wr.pending, 1, n),
                    chunks |-> wr.chunks + 1,
                    endsAt |-> IF n = Len(wr.pending)
                               THEN Len(auditFile) + n ELSE 0,
                    returned |-> 0]]
            /\ UNCHANGED <<lockHolder, readOut>>

\* os.fsync(fh.fileno()); AuditLogger.append then closes the file and returns
Fsync(w) ==
    /\ writers[w].pc = "written"
    /\ writers' = [writers EXCEPT
           ![w].pc = IF writers[w].api = "append_receipt_atomic"
                     THEN "synced" ELSE "done",
           ![w].returned = IF writers[w].api = "append_receipt_atomic"
                           THEN 0 ELSE NumReturned + 1]
    /\ UNCHANGED <<auditFile, lockHolder, readOut>>

\* fcntl.flock(fh, LOCK_UN); the file is closed and the call returns
Unlock(w) ==
    /\ writers[w].api = "append_receipt_atomic"
    /\ writers[w].pc = "synced"
    /\ lockHolder' = Unlocked
    /\ writers' = [writers EXCEPT ![w].pc = "done",
                                  ![w].returned = NumReturned + 1]
    /\ UNCHANGED <<auditFile, readOut>>

\* the process of a writer is killed inside append; the kernel closes its
\* file and with it drops its flock
Crash(w) ==
    /\ writers[w].pc \in {"opened", "locked", "writing", "written", "synced"}
    /\ writers' = [writers EXCEPT ![w].pc = "crashed"]
    /\ lockHolder' = IF lockHolder = w THEN Unlocked ELSE lockHolder
    /\ UNCHANGED <<auditFile, readOut>>

\* a lock that outlives the close of the file it was taken on
HeldAfterClose(holder, w) == holder

\* the with block closes fh on every way out of it, and the close of the
\* only descriptor of an open file drops the flock taken on it
ReleasedByClose(holder, w) == IF holder = w THEN Unlocked ELSE holder

\* fh.write, fh.flush or os.fsync raises OSError: the exception leaves the
\* with block, which closes the file, and the append call ends with it
WriteOrSyncFails(w) ==
    /\ ReadyToWrite(w) \/ writers[w].pc = "written"
    /\ writers' = [writers EXCEPT ![w].pc = "failed"]
    /\ lockHolder' = ReleasedByClose(lockHolder, w)
    /\ UNCHANGED <<auditFile, readOut>>

----------------------------------------------------------------------------
(* AuditLogger.read_all: json.loads on every line of the file *)

Structural == {"{", "}", "\"", ":", ",", "\n"}

\* the integer literals json.loads meets in the records of the model
IntLexemes == {ToString(n) : n \in 0..MaxInt}
IntOf(tok) == CHOOSE n \in 0..MaxInt : ToString(n) = tok

ParseFail == [ok |-> FALSE, val |-> None, rest |-> <<>>]
Parsed(x, rest) == [ok |-> TRUE, val |-> x, rest |-> rest]

\* d[k] = v while an object is decoded: a repeated key takes the last value
SetItem(items, k, v) ==
    IF k \in Keys(items)
    THEN [i \in 1..Len(items) |->
             IF items[i].k = k THEN [k |-> k, v |-> v] ELSE items[i]]
    ELSE Append(items, [k |-> k, v |-> v])

\* the JSON decoder on a sequence of lexemes: one value, then the rest
RECURSIVE ParseValue(_)
RECURSIVE ParseMembers(_, _)
ParseValue(toks) ==
    IF toks = <<>> THEN ParseFail
    ELSE IF toks[1] = "{"
    THEN IF Len(toks) >= 2 /\ toks[2] = "}"
         THEN Parsed(PyDict(<<>>), SubSeq(toks, 3, Len(toks)))
         ELSE ParseMembers(Tail(toks), <<>>)
    ELSE IF toks[1] \in IntLexemes
    THEN Parsed(PyInt(IntOf(toks[1])), Tail(toks))
    ELSE IF toks[1] = "null"
    THEN Parsed(Null, Tail(toks))
    ELSE IF /\ toks[1] = "\""
            /\ Len(toks) >= 3
            /\ toks[2] \notin Structural
            /\ toks[3] = "\""
    THEN Parsed(PyStr(toks[2]), SubSeq(toks, 4, Len(toks)))
    ELSE ParseFail

ParseMembers(toks, items) ==
    IF \/ Len(toks) < 4
       \/ toks[1] # "\""
       \/ toks[2] \in Structural
       \/ toks[3] # "\""
       \/ toks[4] # ":"
    THEN ParseFail
    ELSE LET r == ParseValue(SubSeq(toks, 5, Len(toks)))
         IN  IF ~r.ok \/ r.rest = <<>> THEN ParseFail
             ELSE IF r.rest[1] = "}"
             THEN Parsed(PyDict(SetItem(items, toks[2], r.val)), Tail(r.rest))
             ELSE IF r.rest[1] = ","
             THEN ParseMembers(Tail(r.rest), SetItem(items, toks[2], r.val))
             ELSE ParseFail

\* surrounding whitespace is ignored by json.loads
Strip(line) ==
    IF line # <<>> /\ line[Len(line)] = "\n"
    THEN SubSeq(line, 1, Len(line) - 1)
    ELSE line

\* json.loads(ln.decode("utf-8")): the value, or JSONDecodeError when the
\* line is not exactly one JSON value
json_loads(line) ==
    LET r == ParseValue(Strip(line))
    IN  IF r.ok /\ r.rest = <<>> THEN Returned(r.val)
        ELSE Raised("JSONDecodeError")

\* "for ln in fh": each line ends with its "\n"; the last one may lack it
RECURSIVE FileLines(_)
FileLines(file) ==
    IF file = <<>> THEN <<>>
    ELSE LET nl == {i \in 1..Len(file) : file[i] = "\n"}
             e == IF nl = {} THEN Len(file)
                  ELSE CHOOSE i \in nl : \A j \in nl : i <= j
         IN  <<SubSeq(file, 1, e)>> \o FileLines(SubSeq(file, e + 1, Len(file)))

\* the loop body raising out of read_all instead of "except: continue"
RECURSIVE ReadLinesUnguarded(_)
ReadLinesUnguarded(lines) ==
    IF lines = <<>> THEN Returned(<<>>)
    ELSE LET r == json_loads(Head(lines))
             more == ReadLinesUnguarded(Tail(lines))
         IN  IF r.err # "none" THEN Raised(r.err)
             ELSE IF more.err # "none" THEN more
             ELSE Returned(<<r.val>> \o more.val)

RECURSIVE ReadLines(_)
ReadLines(lines) ==
    IF lines = <<>> THEN Returned(<<>>)
    ELSE LET r == json_loads(Head(lines))
             more == ReadLines(Tail(lines))
         IN  Returned((IF r.err = "none" THEN <<r.val>> ELSE <<>>) \o more.val)

\* os.path.exists(self.log_path): the file is created by the first open "ab"
path_exists == \E w \in Writers : writers[w].pc # "idle"

read_all(exists, file) ==
    IF ~exists THEN Returned(<<>>) ELSE ReadLines(FileLines(file))

\* a fresh reader calls read_all once
ReadAll ==
    /\ ~readOut.done
    /\ readOut' = [done |-> TRUE, at |-> Len(auditFile),
                   res |-> read_all(path_exists, auditFile)]
    /\ UNCHANGED <<auditFile, lockHolder, writers>>

----------------------------------------------------------------------------
(* Claims about the writers of the audit log *)

RecordBytes == {canonical_bytes(r) \o <<"\n">> : r \in LogReceipts}

IsPrefix(a, b) == Len(a) <= Len(b) /\ a = SubSeq(b, 1, Len(a))

\* whole records, each followed by its delimiter, then at most the part
\* written so far of the one record that is being written
RECURSIVE NotInterleaved(_)
NotInterleaved(file) ==
    \/ file = <<>>
    \/ \E rb \in RecordBytes :
           /\ IsPrefix(rb, file)
           /\ NotInterleaved(SubSeq(file, Len(rb) + 1, Len(file)))
    \/ \E w \in Writers :
           /\ writers[w].pc = "writing"
           /\ file = writers[w].written

\* C10: every append holds the exclusive lock from before its first byte is
\* written until after the sync, and the bytes of two records are never
\* interleaved in the file.
C10_AppendsLockedNeverInterleaved ==
    /\ \A w \in Writers :
           writers[w].pc \in {"writing", "written"} => lockHolder = w
    /\ NotInterleaved(auditFile)

----------------------------------------------------------------------------
(* Claims about AuditLogger.read_all *)

\* the read saw the file as it is now
ReadIsCurrent == readOut.done /\ readOut.at = Len(auditFile)

\* writer w has returned from append and nothing was written after its record
AppendedLast(w) ==
    /\ writers[w].pc = "done"
    /\ writers[w].endsAt = Len(auditFile)

\* C11: after append(r) has returned, read_all by a fresh reader returns a
\* sequence whose last record equals r, whatever the file held before the
\* append, a partial record without delimiter left by a crash included.
C11_AppendedRecordIsReadLast ==
    \A w \in Writers :
        (AppendedLast(w) /\ ReadIsCurrent) =>
            /\ readOut.res.err = "none"
            /\ readOut.res.val # <<>>
            /\ PyEq(readOut.res.val[Len(readOut.res.val)], writers[w].receipt)

\* the file as the reader saw it; the file only grows
FileAtRead == SubSeq(auditFile, 1, readOut.at)

\* a line that is the encoding of one JSON value, a dict or not: a fragment
\* of a record such as "a" or 1 alone on a line is one
JsonValues ==
    TopDicts \cup {PyInt(n) : n \in 0..MaxInt} \cup {Null}
        \cup {PyStr(c) : c \in AllLexemes \ Structural}
JsonTexts == {canonical_bytes(x) : x \in JsonValues}
WellFormedLine(line) == Strip(line) \in JsonTexts

RecordsInCompletionOrder ==
    \A u, w \in Writers :
        (writers[u].returned > 0 /\ writers[w].returned > 0) =>
            (writers[u].endsAt < writers[w].endsAt
                <=> writers[u].returned < writers[w].returned)

\* C13: the audit log is append-only: no step of AuditLogger or of
\* append_receipt_atomic rewrites, truncates or deletes bytes already in the
\* file, and the order of the records in the file is the order in which
\* their append calls completed.
C13_AppendOnlyInCompletionOrder ==
    /\ [][IsPrefix(auditFile, auditFile')]_vars
    /\ []RecordsInCompletionOrder

----------------------------------------------------------------------------
(* compute_jsd_distribution (src/diagnostic/jsd_calculator.py).            *)
(* Price values stand for the column after dropna, astype(float) and the   *)
(* optional log1p.  The floating-point work inside the try block of one    *)
(* iteration (the PMF of the resample on the fixed grid, the divergence)   *)
(* is a fixed but unknown function of its operands: fpu records the        *)
(* outcome for every pair of operands met so far, and a pair met again     *)
(* gets the outcome it had.  n_bins, bw, log_transform and the presence    *)
(* of scipy are fixed through a behaviour and are part of that function.   *)

MaxPrice == 2        \* distinct price values 1..MaxPrice
MaxRows == 2         \* rows of the DataFrame
MaxSeed == 1         \* seeds 0..MaxSeed
MaxBootstrap == 2    \* n_bootstrap in 0..MaxBootstrap
MaxSample == 2       \* sample_size in 0..MaxSample, or None
MaxGlobalDraws == 1  \* draws other code takes from numpy's global generator
NumRuns == 2         \* invocations on the same arguments

Runs == 1..NumRuns

One == F(1, 0)

\* a cell of a column: a number, or missing (NaN / None)
Cell(x) == [na |-> FALSE, x |-> x]
NA == [na |-> TRUE, x |-> 0]
Cells == {NA} \cup {Cell(x) : x \in 1..MaxPrice}

SeqsUpTo(S, n) == UNION {[1..k -> S] : k \in 0..n}

DataFrame(cols) == [t |-> "DataFrame", v |-> cols]
\* an argument that is not a pandas.DataFrame
PlainList == [t |-> "list", v |-> <<>>]

Frames ==
    {DataFrame(<<[k |-> "price", v |-> c]>>) : c \in SeqsUpTo(Cells, MaxRows)}
        \cup {DataFrame(<<[k |-> "sku", v |-> <<Cell(1)>>]>>), PlainList}

SampleSizes == {None} \cup {PyInt(n) : n \in 0..MaxSample}

JsdArgs ==
    [df : Frames, price_col : {"price"}, seed : 0..MaxSeed,
     n_bootstrap : 0..MaxBootstrap, sample_size : SampleSizes]

\* the isinstance check and the column check; "none" when both pass
ValidateNothing(df, price_col) == "none"

Validate(df, price_col) ==
    IF df.t # "DataFrame" THEN "TypeError"
    ELSE IF price_col \notin Keys(df.v) THEN "KeyError"
    ELSE "none"

RECURSIVE dropna(_)
dropna(cells) ==
    IF cells = <<>> THEN <<>>
    ELSE (IF Head(cells).na THEN <<>> ELSE <<Head(cells).x>>)
             \o dropna(Tail(cells))

\* df[price_col].dropna().astype(float).values
PricesOf(df, price_col) ==
    IF df.t = "DataFrame" /\ price_col \in Keys(df.v)
    THEN dropna(Lookup(df.v, price_col))
    ELSE <<>>

\* [0.0] * int(n_bootstrap)
NoZeros(n) == <<>>

Zeros(n) == [i \in 1..n |-> Zero]

\* the process-wide generator instead of one seeded inside the call
GlobalState(seed, ambient) == ambient

\* np.random.RandomState(int(seed)): the state depends on the seed alone,
\* whatever the state of numpy's process-wide generator
RandomState(seed, ambient) == seed % 16

NextRng(s) == (5 * s + 3) % 16

\* rng.randint(0, high, size=n): n indices (from 1 here) and the new state
RECURSIVE randint(_, _, _)
randint(s, high, n) ==
    IF n = 0 THEN [idx |-> <<>>, rng |-> s]
    ELSE LET s1 == NextRng(s)
             r == randint(s1, high, n - 1)
         IN  [idx |-> <<((s1 \div 4) % high) + 1>> \o r.idx, rng |-> r.rng]

\* _kde_pmf: which of its branches builds the PMF, and from which samples
_kde_pmf(samples) ==
    [kind |-> IF samples = <<>> THEN "uniform"
              ELSE IF \A i \in 1..Len(samples) : samples[i] = samples[1]
              THEN "point"
              ELSE "estimate",
     samples |-> samples]

\* outcomes of the try block: a divergence before clamping, or an exception
Computed(v) == [raised |-> FALSE, val |-> v]
Failed == [raised |-> TRUE, val |-> Zero]
FpOutcomes ==
    {Computed(Tenths(-1)), Computed(Tenths(5)), Computed(Tenths(11)),
     Computed(NaN), Failed}

\* a < b on floats; every comparison with NaN is false
FLt(a, b) ==
    /\ ~a.nan
    /\ ~b.nan
    /\ \/ a.whole < b.whole
       \/ a.whole = b.whole /\ a.tenth < b.tenth

\* Python's min(a, b) and max(a, b): a unless b is smaller (greater)
PyMin(a, b) == IF FLt(b, a) THEN b ELSE a
PyMax(a, b) == IF FLt(a, b) THEN b ELSE a

Unclamped(jsd) == jsd

\* float(max(0.0, min(1.0, jsd)))
Clamp(jsd) == PyMax(Zero, PyMin(One, jsd))

\* the try block without its except clause
TryBodyUnguarded(o) ==
    IF o.raised THEN Raised("Exception") ELSE Returned(o.val)

\* try: jsd = _jsd_from_pmfs(...)  except Exception: jsd = 1.0
TryBody(o) == IF o.raised THEN Returned(One) ELSE Returned(o.val)

IdleRun ==
    [pc |-> "idle", err |-> "none", prices |-> <<>>, rng |-> 0,
     p_baseline |-> _kde_pmf(<<>>), n |-> 0, jsd_vals |-> <<>>,
     outcomes |-> <<>>, draws |-> 0]

DefaultArgs ==
    [df |-> DataFrame(<<[k |-> "price", v |-> <<>>]>>), price_col |-> "price",
     seed |-> 0, n_bootstrap |-> 0, sample_size |-> None]

IdleDriftVars ==
    /\ jsdArgs = DefaultArgs
    /\ runs = [r \in Runs |-> IdleRun]
    /\ fpu = {}
    /\ npGlobal = 0

InitDriftVars ==
    /\ jsdArgs \in JsdArgs
    /\ runs = [r \in Runs |-> IdleRun]
    /\ fpu = {}
    /\ npGlobal = 0

\* lines 152-180: validation, prices, the empty case, rng, n, baseline PMF
Call(r) ==
    /\ runs[r].pc = "idle"
    /\ LET e == Validate(jsdArgs.df, jsdArgs.price_col)
           prices == PricesOf(jsdArgs.df, jsdArgs.price_col)
       IN  runs' = [runs EXCEPT ![r] =
               IF e # "none"
               THEN [IdleRun EXCEPT !.pc = "raised", !.err = e]
               ELSE IF prices = <<>>
               THEN [IdleRun EXCEPT !.pc = "returned",
                                    !.jsd_vals = Zeros(jsdArgs.n_bootstrap)]
               ELSE [IdleRun EXCEPT
                        !.pc = "loop",
                        !.prices = prices,
                        !.rng = RandomState(jsdArgs.seed, npGlobal),
                        !.n = IF jsdArgs.sample_size.t = "none"
                              THEN Len(prices) ELSE jsdArgs.sample_size.v,
                        !.p_baseline = _kde_pmf(prices)]]
    /\ UNCHANGED <<jsdArgs, fpu, npGlobal>>

\* lines 183-193: one iteration of the bootstrap loop
Iterate(r) ==
    /\ runs[r].pc = "loop"
    /\ Len(runs[r].jsd_vals) < jsdArgs.n_bootstrap
    /\ LET run == runs[r]
           d == randint(run.rng, Len(run.prices), run.n)
           sample == [j \in 1..run.n |-> run.prices[d.idx[j]]]
           q_sample == _kde_pmf(sample)
           known == {e \in fpu : e.p = run.p_baseline /\ e.q = q_sample}
       IN  \E o \in (IF known = {} THEN FpOutcomes
                      ELSE {e.out : e \in known}) :
               LET res == TryBody(o)
               IN  /\ fpu' = fpu \cup
                          {[p |-> run.p_baseline, q |-> q_sample, out |-> o]}
                   /\ runs' = [runs EXCEPT ![r] =
                          IF res.err # "none"
                          THEN [run EXCEPT !.pc = "raised", !.err = res.err,
                                           !.rng = d.rng,
                                           !.draws = run.draws + run.n]
                          ELSE [run EXCEPT
                                   !.rng = d.rng,
                                   !.draws = run.draws + run.n,
                                   !.outcomes = Append(run.outcomes, o),
                                   !.jsd_vals =
                                       Append(run.jsd_vals, Clamp(res.val))]]
    /\ UNCHANGED <<jsdArgs, npGlobal>>

\* line 195: return jsd_vals
Return(r) ==
    /\ runs[r].pc = "loop"
    /\ Len(runs[r].jsd_vals) = jsdArgs.n_bootstrap
    /\ runs' = [runs EXCEPT ![r].pc = "returned"]
    /\ UNCHANGED <<jsdArgs, fpu, npGlobal>>

\* other code of the process draws from numpy's process-wide generator
OtherDraw ==
    /\ npGlobal < MaxGlobalDraws
    /\ npGlobal' = npGlobal + 1
    /\ UNCHANGED <<jsdArgs, runs, fpu>>

----------------------------------------------------------------------------
(* Claims about compute_jsd_distribution *)

Finished(r) == runs[r].pc \in {"returned", "raised"}

\* the argument is a DataFrame that has the price column
ValidInput ==
    /\ jsdArgs.df.t = "DataFrame"
    /\ \E i \in 1..Len(jsdArgs.df.v) : jsdArgs.df.v[i].k = jsdArgs.price_col

\* the price column has no value left once the missing ones are dropped
NoPrices ==
    /\ ValidInput
    /\ \A i \in 1..Len(jsdArgs.df.v) :
           jsdArgs.df.v[i].k = jsdArgs.price_col =>
               \A j \in 1..Len(jsdArgs.df.v[i].v) : jsdArgs.df.v[i].v[j].na

\* C14: two invocations on the same baseline, seed and knobs, run one after
\* the other or interleaved, return identical sequences, whatever happens
\* to state outside the calls (numpy's process-wide generator).
C14_SameArgumentsSameOutput ==
    \A r1, r2 \in Runs :
        (Finished(r1) /\ Finished(r2)) =>
            /\ runs[r1].pc = runs[r2].pc
            /\ runs[r1].err = runs[r2].err
            /\ runs[r1].jsd_vals = runs[r2].jsd_vals

\* both invocations returned two different values each, and the process-wide
\* generator was used in between
C14_Witness ==
    /\ \A r \in Runs :
           /\ runs[r].pc = "returned"
           /\ Len(runs[r].jsd_vals) >= 2
           /\ runs[r].jsd_vals[1] # runs[r].jsd_vals[2]
    /\ npGlobal > 0

\* C15: every value emitted by compute_jsd_distribution lies in [0,1], for
\* empty, singleton and all-equal baselines too, and also when the
\* divergence before clamping is negative, greater than 1 or not a number.
C15_EmittedValuesInUnitInterval ==
    \A r \in Runs :
        \A i \in 1..Len(runs[r].jsd_vals) :
            InUnitInterval(runs[r].jsd_vals[i])

\* a returned sequence whose iterations computed NaN and a value above 1
C15_Witness ==
    \E r \in Runs :
        /\ runs[r].pc = "returned"
        /\ \E i, j \in 1..Len(runs[r].outcomes) :
               /\ runs[r].outcomes[i] = Computed(NaN)
               /\ runs[r].outcomes[j] = Computed(Tenths(11))

\* C16: the call returns exactly n_bootstrap values for every
\* n_bootstrap >= 0, and n_bootstrap zeros when the price column is empty
\* after the missing values are dropped.
C16_ReturnsNBootstrapValues ==
    \A r \in Runs :
        /\ runs[r].pc = "returned" =>
               /\ Len(runs[r].jsd_vals) = jsdArgs.n_bootstrap
               /\ NoPrices => \A i \in 1..Len(runs[r].jsd_vals) :
                                  runs[r].jsd_vals[i] = Zero
        /\ ValidInput => runs[r].pc # "raised"

\* a column of missing values only, and n_bootstrap zeros returned
C16_Witness ==
    \E r \in Runs :
        /\ runs[r].pc = "returned"
        /\ NoPrices
        /\ jsdArgs.df.v[1].v # <<>>
        /\ jsdArgs.n_bootstrap >= 2
        /\ runs[r].jsd_vals = <<Zero, Zero>>

\* C17: an exception inside one bootstrap iteration is recorded as 1.0 for
\* that iteration only: the call does not abort, the other iterations keep
\* their own values and positions, the output has n_bootstrap entries, and
\* no error other than a validation error reaches the caller.
C17_IterationFailureRecordedAsOne ==
    \A r \in Runs :
        /\ Len(runs[r].outcomes) = Len(runs[r].jsd_vals)
               \/ (runs[r].outcomes = <<>> /\ NoPrices)
        /\ \A i \in 1..Len(runs[r].outcomes) :
               /\ runs[r].outcomes[i].raised => runs[r].jsd_vals[i] = One
               /\ (/\ ~runs[r].outcomes[i].raised
                   /\ InUnitInterval(runs[r].outcomes[i].val))
                      => runs[r].jsd_vals[i] = runs[r].outcomes[i].val
        /\ runs[r].pc = "raised" =>
               (~ValidInput /\ runs[r].err \in {"TypeError", "KeyError"})
        /\ runs[r].pc = "returned" =>
               Len(runs[r].jsd_vals) = jsdArgs.n_bootstrap

\* the first iteration failed, the second one kept its own value
C17_Witness ==
    \E r \in Runs :
        /\ runs[r].pc = "returned"
        /\ Len(runs[r].outcomes) >= 2
        /\ runs[r].outcomes[1].raised
        /\ runs[r].jsd_vals[1] = One
        /\ runs[r].outcomes[2] = Computed(Tenths(5))
        /\ runs[r].jsd_vals[2] = Tenths(5)

\* C18: the call fails with an error, before it draws any sample and
\* without a partial result, when its input is not a DataFrame or when the
\* requested price column is absent.
C18_InvalidInputFailsFirst ==
    \A r \in Runs :
        (runs[r].pc # "idle" /\ ~ValidInput) =>
            /\ runs[r].pc = "raised"
            /\ runs[r].err =
                   IF jsdArgs.df.t # "DataFrame" THEN "TypeError" ELSE "KeyError"
            /\ runs[r].draws = 0
            /\ runs[r].jsd_vals = <<>>

\* a call on a DataFrame without the price column has raised KeyError
C18_Witness ==
    \E r \in Runs :
        /\ runs[r].pc = "raised"
        /\ runs[r].err = "KeyError"
        /\ jsdArgs.df.t = "DataFrame"

\* C24: in every bootstrap iteration the PMF of the resample is built with
\* the estimation method (density estimate, uniform, single-bin point mass)
\* that built the baseline PMF of the call: the method is chosen once per
\* call, not per resample.
C24_ResampleMethodIsBaselineMethod ==
    \A e \in fpu : e.q.kind = e.p.kind

\* what a read_all called in this state returns
View == read_all(path_exists, auditFile).val

\* C30: the view given by read_all only grows: whatever appends, crashes in
\* the middle of a write and reads take place, what read_all returns after
\* a step has what it returned before the step as a prefix, so that a later
\* read_all extends every earlier one.
C30_ReadAllViewOnlyGrows ==
    [][IsPrefix(View, View')]_vars

----------------------------------------------------------------------------
(* Claims about the lock of append_receipt_atomic *)

Waiting(w) ==
    writers[w].api = "append_receipt_atomic" /\ writers[w].pc = "opened"

InsideLockedRegion(w) ==
    writers[w].pc \in {"locked", "writing", "written", "synced"}

\* C26: the lock is scoped to one append call: it is held only by a writer
\* between its flock and the end of its append, it is released when the
\* append ends, also when the write or the sync fails, and so a writer
\* waiting for the lock eventually acquires it.
C26_WaitingWriterAcquiresLock ==
    /\ [](\A w \in Writers : lockHolder = w => InsideLockedRegion(w))
    /\ \A w \in Writers : Waiting(w) ~> (lockHolder = w)

\* a writer holds the lock after another append failed inside a write
\* that had put part of its record into the file
C26_Witness ==
    \E w, v \in Writers :
        /\ lockHolder = w
        /\ writers[v].api = "append_receipt_atomic"
        /\ writers[v].pc = "failed"
        /\ writers[v].chunks = 1
        /\ writers[v].pending # <<>>

----------------------------------------------------------------------------
(* Threads inside execute_pricing_action, on one controller or on several. *)
(* Every statement of the method is a step of its thread; diagnostics,      *)
(* action, receipt_payload and sig are local variables of the call.         *)

Controllers == 1..NumControllers
Callers == 1..NumCallers

\* thresholds the controllers were built with
ControllerThresholds ==
    {GateController_init(None),
     GateController_init(PyDict(<<[k |-> "jsd_global_99", v |-> PyFloat(Zero)]>>))}

CallerContexts ==
    {PyDict(<<>>), ScoreDict(Tenths(6)), ScoreDict(Tenths(9)),
     PyDict(<<[k |-> "jsd_global", v |-> Null]>>)}

NoFrame ==
    [pc |-> "idle", gc |-> 1, action_type |-> "", payload |-> PyDict(<<>>),
     context |-> PyDict(<<>>), diagnostics |-> PyDict(<<>>), action |-> "",
     t |-> 0, receipt_payload |-> PyDict(<<>>), out |-> Idle]

IdleConcVars ==
    /\ controllers = [gc \in Controllers |-> GateController_init(None)]
    /\ frames = [c \in Callers |-> NoFrame]

InitConcVars ==
    /\ controllers \in [Controllers -> ControllerThresholds]
    /\ frames = [c \in Callers |-> NoFrame]

\* one slot for the variables of the method, shared by all its activations
SharedSlot(fs, c) == fs[1]

\* the local variables of the activation of thread c
Locals(fs, c) == fs[c]

\* gc.execute_pricing_action(action_type, payload, context) is entered
Enter(c) ==
    \E gc \in Controllers, action_type \in ActionTypes, payload \in Payloads,
       context \in CallerContexts :
        /\ frames[c].pc = "idle"
        /\ frames' = [frames EXCEPT ![c] =
               [NoFrame EXCEPT !.pc = "entered", !.gc = gc,
                               !.action_type = action_type,
                               !.payload = payload, !.context = context]]
        /\ UNCHANGED <<controllers, priv, pub, now>>

\* line 43: diagnostics = {"jsd_global": float(context.get("jsd_global", 0.0))}
ReadContext(c) ==
    LET fr == frames[c]
        score == PyFloatOf(DictGet(fr.context, "jsd_global", PyFloat(Zero)))
    IN  /\ fr.pc = "entered"
        /\ frames' = [frames EXCEPT ![c] =
               IF score.err # "none"
               THEN [fr EXCEPT !.pc = "done",
                               !.out = Outcome("raised", score.err, NoResult)]
               ELSE [fr EXCEPT !.pc = "diagnosed",
                               !.diagnostics = ScoreDict(score.val)]]
        /\ UNCHANGED <<controllers, priv, pub, now>>

\* line 44: action = self._decide(diagnostics)
DecideStep(c) ==
    LET fr == frames[c]
        decided == _decide(controllers[fr.gc], Locals(frames, c).diagnostics)
    IN  /\ fr.pc = "diagnosed"
        /\ frames' = [frames EXCEPT ![c] =
               IF decided.err # "none"
               THEN [fr EXCEPT !.pc = "done",
                               !.out = Outcome("raised", decided.err, NoResult)]
               ELSE [fr EXCEPT !.pc = "decided", !.action = decided.val]]
        /\ UNCHANGED <<controllers, priv, pub, now>>

\* lines 46-52: receipt_payload = {...}, with the clock read once
BuildReceiptPayload(c) ==
    LET fr == frames[c]
        mine == Locals(frames, c)
    IN  /\ fr.pc = "decided"
        /\ frames' = [frames EXCEPT ![c] =
               [fr EXCEPT !.pc = "built", !.t = now,
                          !.receipt_payload =
                              ReceiptPayload(now, fr.action_type, fr.payload,
                                             mine.action, mine.diagnostics)]]
        /\ UNCHANGED <<controllers, priv, pub, now>>

\* lines 55-58: sig = self.signer.sign(receipt_payload); the result is returned
SignAndReturn(c) ==
    LET fr == frames[c]
        mine == Locals(frames, c)
        sig == sign(priv, mine.receipt_payload)
    IN  /\ fr.pc = "built"
        /\ frames' = [frames EXCEPT ![c] =
               [fr EXCEPT
                   !.pc = "done",
                   !.out =
                       IF sig.err # "none"
                       THEN Outcome("raised", sig.err, NoResult)
                       ELSE Outcome("returned", "none",
                                [action |-> mine.action,
                                 diagnostics |-> mine.diagnostics,
                                 receipt |-> [payload |-> mine.receipt_payload,
                                              signature |-> sig.val]])]]
        /\ UNCHANGED <<controllers, priv, pub, now>>

\* time.gmtime() moves on while the threads run
ClockTick ==
    /\ now < MaxClock
    /\ now' = now + 1
    /\ UNCHANGED <<controllers, frames, priv, pub>>

\* what the call of thread c returns when it runs alone
Alone(c) ==
    execute_pricing_action(controllers[frames[c].gc], priv, frames[c].t,
                           frames[c].action_type, frames[c].payload,
                           frames[c].context)

\* C21: concurrent execute_pricing_action calls, on one controller or on
\* several, do not interfere: every call that has ended has raised or
\* returned as it does when run alone, and with the same action and
\* diagnostics.
C21_ConcurrentCallsDoNotInterfere ==
    \A c \in Callers :
        frames[c].pc = "done" =>
            /\ frames[c].out.status = Alone(c).status
            /\ frames[c].out.error = Alone(c).error
            /\ frames[c].out.result.action = Alone(c).result.action
            /\ frames[c].out.result.diagnostics = Alone(c).result.diagnostics

\* two calls on one controller overlapped, were given different scores and
\* were decided differently
C21_Witness ==
    \E c, d \in Callers :
        /\ c # d
        /\ frames[c].gc = frames[d].gc
        /\ frames[c].pc = "done"
        /\ frames[c].out.status = "returned"
        /\ frames[c].out.result.action = "THROTTLE"
        /\ frames[d].pc = "built"
        /\ frames[d].action = "HARD_LOCK"
        /\ frames[d].t # frames[c].t

----------------------------------------------------------------------------
(* ReplayEngine (src/data/replay.py).  A row of the baseline CSV is its     *)
(* Invoice and its InvoiceDate; the other columns are carried along and     *)
(* take no part in what the engine does.  SHA-256 is idealised: no two      *)
(* files of the model share a digest.                                       *)

Dates == 1..MaxDate
Streams == 1..NumStreams

\* the files: row i carries invoice i
CsvFiles ==
    UNION {{[i \in 1..n |-> [invoice |-> i, date |-> d[i]]] :
               d \in [1..n -> Dates]} : n \in 0..MaxCsvRows}

FileTable == SetToSeq(CsvFiles)

\* hashlib.sha256 over the bytes of the file, as hexdigest
sha256(file) == CHOOSE i \in 1..Len(FileTable) : FileTable[i] = file

NoManifest == [exists |-> FALSE, hash |-> 0]
Manifest(h) == [exists |-> TRUE, hash |-> h]

\* a constructor that verifies nothing
_verify_nothing(file, mf) == "none"

\* "none" when the hash of the file is the hash in the manifest
_verify_integrity(file, mf) ==
    IF ~mf.exists THEN "FileNotFoundError"
    ELSE IF sha256(file) # mf.hash THEN "ValueError"
    ELSE "none"

NonDecreasing(rows) ==
    \A i, j \in 1..Len(rows) : i < j => rows[i].date <= rows[j].date

\* the rows left in the order of the file
file_order(rows) == {rows}

\* df.sort_values('InvoiceDate').reset_index(drop=True): the sort is not
\* stable, rows of one date come out in either order
sort_values(rows) ==
    {r \in {[i \in 1..Len(rows) |-> rows[p[i]]] : p \in Perms(1..Len(rows))} :
        NonDecreasing(r)}

NoEngine ==
    [state |-> "none", err |-> "none", verify_hash |-> FALSE, df |-> <<>>,
     current_index |-> 0, playback_start_time |-> None]

\* ReplayEngine(csv_path, manifest_path, verify_hash): the objects that
\* construction may end with
ReplayEngine_init(file, mf, verify_hash) ==
    LET e == IF verify_hash THEN _verify_integrity(file, mf) ELSE "none"
    IN  IF e # "none"
        THEN {[NoEngine EXCEPT !.state = "raised", !.err = e,
                               !.verify_hash = verify_hash]}
        ELSE IF file = <<>>
        THEN {[NoEngine EXCEPT !.state = "raised", !.err = "IndexError",
                               !.verify_hash = verify_hash]}
        ELSE {[NoEngine EXCEPT !.state = "ready", !.verify_hash = verify_hash,
                               !.df = df] : df \in sort_values(file)}

RECURSIVE SelectRows(_, _, _)
SelectRows(rows, lo, hi) ==
    IF rows = <<>> THEN <<>>
    ELSE (IF lo <= Head(rows).date /\ Head(rows).date <= hi
          THEN <<Head(rows)>> ELSE <<>>) \o SelectRows(Tail(rows), lo, hi)

\* lines 156-162: a datetime is always true, None never
DateFiltered(df, start_date, end_date) ==
    SelectRows(df,
               IF start_date.t = "int" THEN start_date.v ELSE 1,
               IF end_date.t = "int" THEN end_date.v ELSE MaxDate)

\* get_window: the rows with end_date - window_days <= InvoiceDate <= end_date
get_window(df, end_date, window_days) ==
    SelectRows(df, end_date - window_days, end_date)

\* Transaction(invoice=row['Invoice'], ..., invoice_date=row['InvoiceDate'])
Transaction(row) == [invoice |-> row.invoice, invoice_date |-> row.date]

MaxEventsArgs == {None} \cup {PyInt(n) : n \in 0..MaxEvents}
StartDates == {None, PyInt(MaxDate)}
EndDates == {None, PyInt(1)}

NoGen ==
    [pc |-> "none", max_events |-> None, start_date |-> None,
     end_date |-> None, df |-> <<>>, events_streamed |-> 0, yielded |-> <<>>]

NoWindow == [called |-> FALSE, rows |-> <<>>]

IdleReplayVars ==
    /\ csvFile = <<>>
    /\ manifest = NoManifest
    /\ engine = NoEngine
    /\ gens = [s \in Streams |-> NoGen]
    /\ window = NoWindow

\* the baseline as frozen: its manifest holds its hash, or was never written
InitReplayVars ==
    /\ csvFile \in CsvFiles
    /\ manifest \in {NoManifest, Manifest(sha256(csvFile))}
    /\ engine = NoEngine
    /\ gens = [s \in Streams |-> NoGen]
    /\ window = NoWindow

\* one cell of the frozen baseline is changed on disk
Tamper ==
    \E i \in 1..Len(csvFile), d \in Dates :
        /\ engine.state = "none"
        /\ manifest.exists
        /\ sha256(csvFile) = manifest.hash
        /\ d # csvFile[i].date
        /\ csvFile' = [csvFile EXCEPT ![i].date = d]
        /\ UNCHANGED <<manifest, engine, gens, window>>

\* engine = ReplayEngine(csv_path, manifest_path=..., verify_hash=...)
Construct ==
    \E verify_hash \in BOOLEAN :
        /\ engine.state = "none"
        /\ engine' \in ReplayEngine_init(csvFile, manifest, verify_hash)
        /\ UNCHANGED <<csvFile, manifest, gens, window>>

\* g = engine.stream(max_events=..., start_date=..., end_date=...): the body
\* of a generator function does not run before the first next(g)
StreamCall(s) ==
    \E max_events \in MaxEventsArgs, start_date \in StartDates,
       end_date \in EndDates :
        /\ engine.state = "ready"
        /\ gens[s].pc = "none"
        /\ gens' = [gens EXCEPT ![s] =
               [NoGen EXCEPT !.pc = "created", !.max_events = max_events,
                             !.start_date = start_date, !.end_date = end_date]]
        /\ UNCHANGED <<csvFile, manifest, engine, window>>

\* if max_events and events_streamed >= max_events
LimitReached(max_events, events_streamed) ==
    /\ max_events.t = "int"
    /\ max_events.v # 0
    /\ events_streamed >= max_events.v

\* next(g): the body runs up to its next yield, or to its end
StreamNext(s) ==
    LET g == gens[s]
    IN  \/ /\ g.pc = "created"
           /\ LET df == DateFiltered(engine.df, g.start_date, g.end_date)
              IN  IF df = <<>>
                  THEN /\ gens' = [gens EXCEPT ![s].pc = "finished"]
                       /\ UNCHANGED engine
                  ELSE /\ gens' = [gens EXCEPT
                              ![s].pc = "suspended", ![s].df = df,
                              ![s].yielded = <<Transaction(df[1])>>]
                       /\ engine' = [engine EXCEPT
                              !.playback_start_time = PyStr("time.time()")]
           /\ UNCHANGED <<csvFile, manifest, window>>
        \/ /\ g.pc = "suspended"
           /\ LET streamed == g.events_streamed + 1
              IN  gens' = [gens EXCEPT ![s] =
                      IF \/ LimitReached(g.max_events, streamed)
                         \/ Len(g.yielded) = Len(g.df)
                      THEN [g EXCEPT !.pc = "finished",
                                     !.events_streamed = streamed]
                      ELSE [g EXCEPT
                               !.events_streamed = streamed,
                               !.yielded = Append(g.yielded,
                                   Transaction(g.df[Len(g.yielded) + 1]))]]
           /\ UNCHANGED <<csvFile, manifest, engine, window>>

\* engine.reset()
Reset ==
    /\ engine.state = "ready"
    /\ engine.playback_start_time # None
    /\ engine' = [engine EXCEPT !.current_index = 0,
                                !.playback_start_time = None]
    /\ UNCHANGED <<csvFile, manifest, gens, window>>

\* w = engine.get_window(end_date, window_days)
GetWindow ==
    \E end_date \in Dates, window_days \in 0..MaxWindowDays :
        /\ engine.state = "ready"
        /\ window' = [called |-> TRUE,
                      rows |-> get_window(engine.df, end_date, window_days)]
        /\ UNCHANGED <<csvFile, manifest, engine, gens>>

----------------------------------------------------------------------------
(* Claims about ReplayEngine *)

Constructed == engine.state # "none"

BaselineRejected ==
    ~manifest.exists \/ sha256(csvFile) # manifest.hash

\* C22: the engine fails closed on a tampered baseline: constructed with
\* verify_hash true on a file whose SHA-256 is not the hash of the manifest,
\* or without a manifest, construction raises, no row is loaded, and no
\* generator is ever obtained from the engine.
C22_TamperedBaselineFailsClosed ==
    (Constructed /\ engine.verify_hash /\ BaselineRejected) =>
        /\ engine.state = "raised"
        /\ engine.err \in {"ValueError", "FileNotFoundError"}
        /\ engine.df = <<>>
        /\ \A s \in Streams : gens[s].pc = "none"

\* a two-row file with a manifest, one date changed, then constructed
C22_Witness ==
    /\ Constructed
    /\ engine.verify_hash
    /\ manifest.exists
    /\ Len(csvFile) = 2
    /\ sha256(csvFile) # manifest.hash
    /\ engine.err = "ValueError"

SameArguments(g, h) ==
    /\ g.max_events = h.max_events
    /\ g.start_date = h.start_date
    /\ g.end_date = h.end_date

NonDecreasingDates(events) ==
    \A i, j \in 1..Len(events) :
        i < j => events[i].invoice_date <= events[j].invoice_date

\* C23: stream is repeatable: two stream calls on one engine with the same
\* arguments yield the same events in the same order, by non-decreasing
\* invoice date, whatever stream, reset or get_window calls took place in
\* between.
C23_StreamRepeatable ==
    \A s, u \in Streams :
        /\ NonDecreasingDates(gens[s].yielded)
        /\ (gens[s].pc # "none" /\ gens[u].pc # "none"
                /\ SameArguments(gens[s], gens[u])) =>
               /\ \/ IsPrefix(gens[s].yielded, gens[u].yielded)
                  \/ IsPrefix(gens[u].yielded, gens[s].yielded)
               /\ (gens[s].pc = "finished" /\ gens[u].pc = "finished")
                      => gens[s].yielded = gens[u].yielded

\* a file in descending date order, two exhausted streams with the same
\* arguments, a get_window and a reset after the streams started
C23_Witness ==
    /\ Len(csvFile) = 2
    /\ csvFile[1].date > csvFile[2].date
    /\ gens[1].pc = "finished"
    /\ gens[2].pc = "finished"
    /\ SameArguments(gens[1], gens[2])
    /\ Len(gens[1].yielded) = 2
    /\ gens[2].yielded = gens[1].yielded
    /\ window.called
    /\ engine.playback_start_time = None

\* C25: stream yields at most max_events events for every integer
\* max_events >= 0; with a limit below the number of date-filtered events
\* it does not yield them all, which it does only when max_events is None.
C25_StreamYieldsAtMostMaxEvents ==
    \A s \in Streams :
        (gens[s].pc = "finished" /\ gens[s].max_events.t = "int") =>
            /\ Len(gens[s].yielded) <= gens[s].max_events.v
            /\ gens[s].max_events.v < Len(gens[s].df)
                   => Len(gens[s].yielded) < Len(gens[s].df)

\* a positive limit is kept
PositiveLimitKept ==
    \A s \in Streams :
        (gens[s].max_events.t = "int" /\ gens[s].max_events.v > 0) =>
            Len(gens[s].yielded) <= gens[s].max_events.v

----------------------------------------------------------------------------
(* Specifications *)

IdleCanonVars ==
    /\ objA = PyDict(<<>>)
    /\ objB = PyDict(<<>>)
    /\ outA = NotRun
    /\ outB = NotRun

IdleGateVars ==
    /\ thresholdsArg = None
    /\ thresholds = GateController_init(None)
    /\ now = 0
    /\ call = NoCall

EmptyLog == auditFile = <<>>

IdleKeys == priv = NoKey /\ pub = NoKey

\* the governed-action entrypoint
Init ==
    /\ InitGateVars
    /\ InitKeys
    /\ IdleCanonVars
    /\ InitSignerVars
    /\ InitLockVars
    /\ IdleDriftVars
    /\ IdleReplayVars
    /\ IdleConcVars

Next ==
    \/ ExecutePricingAction /\ UNCHANGED <<canonVars, signerVars, lockVars, driftVars, concVars, replayVars>>
    \/ Decide /\ UNCHANGED <<canonVars, signerVars, lockVars, driftVars, concVars, replayVars>>
    \/ CallerContinues /\ UNCHANGED <<canonVars, signerVars, lockVars, driftVars, concVars, replayVars>>
    \/ Tick /\ UNCHANGED <<canonVars, signerVars, lockVars, driftVars, concVars, replayVars>>

Spec == Init /\ [][Next]_vars

\* threads inside execute_pricing_action
InitConc ==
    /\ InitConcVars
    /\ priv \in {NoKey} \cup KeyIds
    /\ pub = priv
    /\ thresholdsArg = None
    /\ thresholds = GateController_init(None)
    /\ now = 0
    /\ call = NoCall
    /\ EmptyLog
    /\ IdleCanonVars
    /\ InitSignerVars
    /\ InitLockVars
    /\ IdleDriftVars
    /\ IdleReplayVars

NextConc ==
    \/ \E c \in Callers :
           \/ Enter(c)
                /\ UNCHANGED <<thresholdsArg, thresholds, call, auditFile,
                               canonVars, signerVars, lockVars, driftVars, replayVars>>
           \/ ReadContext(c)
                /\ UNCHANGED <<thresholdsArg, thresholds, call, auditFile,
                               canonVars, signerVars, lockVars, driftVars, replayVars>>
           \/ DecideStep(c)
                /\ UNCHANGED <<thresholdsArg, thresholds, call, auditFile,
                               canonVars, signerVars, lockVars, driftVars, replayVars>>
           \/ BuildReceiptPayload(c)
                /\ UNCHANGED <<thresholdsArg, thresholds, call, auditFile,
                               canonVars, signerVars, lockVars, driftVars, replayVars>>
           \/ SignAndReturn(c)
                /\ UNCHANGED <<thresholdsArg, thresholds, call, auditFile,
                               canonVars, signerVars, lockVars, driftVars, replayVars>>
    \/ ClockTick
         /\ UNCHANGED <<thresholdsArg, thresholds, call, auditFile,
                        canonVars, signerVars, lockVars, driftVars, replayVars>>

SpecConc == InitConc /\ [][NextConc]_vars

\* one ReplayEngine over a frozen baseline
InitReplay ==
    /\ InitReplayVars
    /\ IdleGateVars
    /\ EmptyLog
    /\ IdleKeys
    /\ IdleCanonVars
    /\ InitSignerVars
    /\ InitLockVars
    /\ IdleDriftVars
    /\ IdleConcVars

NextReplay ==
    \/ Tamper
         /\ UNCHANGED <<gateVars, auditFile, keyVars, canonVars, signerVars,
                        lockVars, driftVars, concVars>>
    \/ Construct
         /\ UNCHANGED <<gateVars, auditFile, keyVars, canonVars, signerVars,
                        lockVars, driftVars, concVars>>
    \/ \E s \in Streams :
           \/ StreamCall(s)
                /\ UNCHANGED <<gateVars, auditFile, keyVars, canonVars,
                               signerVars, lockVars, driftVars, concVars>>
           \/ StreamNext(s)
                /\ UNCHANGED <<gateVars, auditFile, keyVars, canonVars,
                               signerVars, lockVars, driftVars, concVars>>
    \/ Reset
         /\ UNCHANGED <<gateVars, auditFile, keyVars, canonVars, signerVars,
                        lockVars, driftVars, concVars>>
    \/ GetWindow
         /\ UNCHANGED <<gateVars, auditFile, keyVars, canonVars, signerVars,
                        lockVars, driftVars, concVars>>

SpecReplay == InitReplay /\ [][NextReplay]_vars

\* canonical_bytes on two payloads
InitCanon ==
    /\ InitCanonVars
    /\ IdleGateVars
    /\ EmptyLog
    /\ IdleKeys
    /\ InitSignerVars
    /\ InitLockVars
    /\ IdleDriftVars
    /\ IdleReplayVars
    /\ IdleConcVars

NextCanon ==
    \/ CanonicalizeA
         /\ UNCHANGED <<gateVars, auditFile, keyVars, signerVars, lockVars, driftVars, concVars, replayVars>>
    \/ CanonicalizeB
         /\ UNCHANGED <<gateVars, auditFile, keyVars, signerVars, lockVars, driftVars, concVars, replayVars>>

SpecCanon == InitCanon /\ [][NextCanon]_vars

\* CryptoSigner.sign and CryptoSigner.verify
InitSigner ==
    /\ InitSignerVars
    /\ InitKeys
    /\ IdleGateVars
    /\ EmptyLog
    /\ IdleCanonVars
    /\ InitLockVars
    /\ IdleDriftVars
    /\ IdleReplayVars
    /\ IdleConcVars

NextSigner ==
    \/ SignPayload
         /\ UNCHANGED <<gateVars, auditFile, keyVars, canonVars, lockVars, driftVars, concVars, replayVars>>
    \/ ReplaceSignatureChar
         /\ UNCHANGED <<gateVars, auditFile, keyVars, canonVars, lockVars, driftVars, concVars, replayVars>>
    \/ TruncateSignature
         /\ UNCHANGED <<gateVars, auditFile, keyVars, canonVars, lockVars, driftVars, concVars, replayVars>>
    \/ SubstituteSignature
         /\ UNCHANGED <<gateVars, auditFile, keyVars, canonVars, lockVars, driftVars, concVars, replayVars>>
    \/ ChangePayload
         /\ UNCHANGED <<gateVars, auditFile, keyVars, canonVars, lockVars, driftVars, concVars, replayVars>>
    \/ SignReceipt
         /\ UNCHANGED <<gateVars, auditFile, keyVars, canonVars, lockVars, driftVars, concVars, replayVars>>
    \/ SignBytes
         /\ UNCHANGED <<gateVars, auditFile, keyVars, canonVars, lockVars, driftVars, concVars, replayVars>>
    \/ EditReceiptField
         /\ UNCHANGED <<gateVars, auditFile, keyVars, canonVars, lockVars, driftVars, concVars, replayVars>>
    \/ Verify
         /\ UNCHANGED <<gateVars, auditFile, keyVars, canonVars, lockVars, driftVars, concVars, replayVars>>

SpecSigner == InitSigner /\ [][NextSigner]_vars

\* concurrent appends to one audit log file
InitLog ==
    /\ InitLockVars
    /\ EmptyLog
    /\ IdleGateVars
    /\ IdleKeys
    /\ IdleCanonVars
    /\ InitSignerVars
    /\ IdleDriftVars
    /\ IdleReplayVars
    /\ IdleConcVars

NextLog ==
    \E w \in Writers :
        \/ AppendBegin(w) /\ UNCHANGED <<gateVars, keyVars, canonVars, signerVars, driftVars, concVars, replayVars>>
        \/ Flock(w) /\ UNCHANGED <<gateVars, keyVars, canonVars, signerVars, driftVars, concVars, replayVars>>
        \/ WriteSome(w) /\ UNCHANGED <<gateVars, keyVars, canonVars, signerVars, driftVars, concVars, replayVars>>
        \/ Fsync(w) /\ UNCHANGED <<gateVars, keyVars, canonVars, signerVars, driftVars, concVars, replayVars>>
        \/ Unlock(w) /\ UNCHANGED <<gateVars, keyVars, canonVars, signerVars, driftVars, concVars, replayVars>>
        \/ Crash(w) /\ UNCHANGED <<gateVars, keyVars, canonVars, signerVars, driftVars, concVars, replayVars>>
        \/ ReadAll /\ UNCHANGED <<gateVars, keyVars, canonVars, signerVars, driftVars, concVars, replayVars>>

SpecLog == InitLog /\ [][NextLog]_vars

\* append calls that run to their end or fail with an exception; a thread
\* inside append is scheduled again and again, and flock returns once the
\* lock stays free
FlockStep(w) ==
    Flock(w) /\ UNCHANGED <<gateVars, keyVars, canonVars, signerVars, driftVars, concVars, replayVars>>
WriteStep(w) ==
    WriteSome(w) /\ UNCHANGED <<gateVars, keyVars, canonVars, signerVars, driftVars, concVars, replayVars>>
FsyncStep(w) ==
    Fsync(w) /\ UNCHANGED <<gateVars, keyVars, canonVars, signerVars, driftVars, concVars, replayVars>>
UnlockStep(w) ==
    Unlock(w) /\ UNCHANGED <<gateVars, keyVars, canonVars, signerVars, driftVars, concVars, replayVars>>

NextLock ==
    \E w \in Writers :
        \/ AppendBegin(w) /\ UNCHANGED <<gateVars, keyVars, canonVars, signerVars, driftVars, concVars, replayVars>>
        \/ FlockStep(w)
        \/ WriteStep(w)
        \/ FsyncStep(w)
        \/ UnlockStep(w)
        \/ WriteOrSyncFails(w) /\ UNCHANGED <<gateVars, keyVars, canonVars, signerVars, driftVars, concVars, replayVars>>

SpecLock ==
    /\ InitLog
    /\ [][NextLock]_vars
    /\ \A w \in Writers :
           /\ WF_vars(FlockStep(w))
           /\ WF_vars(WriteStep(w))
           /\ WF_vars(FsyncStep(w))
           /\ WF_vars(UnlockStep(w))

\* two invocations of compute_jsd_distribution
InitDrift ==
    /\ InitDriftVars
    /\ IdleReplayVars
    /\ IdleConcVars
    /\ IdleGateVars
    /\ EmptyLog
    /\ IdleKeys
    /\ IdleCanonVars
    /\ InitSignerVars
    /\ InitLockVars

NextDrift ==
    \/ \E r \in Runs :
           \/ Call(r)
                /\ UNCHANGED <<gateVars, auditFile, keyVars, canonVars,
                               signerVars, lockVars, concVars, replayVars>>
           \/ Iterate(r)
                /\ UNCHANGED <<gateVars, auditFile, keyVars, canonVars,
                               signerVars, lockVars, concVars, replayVars>>
           \/ Return(r)
                /\ UNCHANGED <<gateVars, auditFile, keyVars, canonVars,
                               signerVars, lockVars, concVars, replayVars>>
    \/ OtherDraw
         /\ UNCHANGED <<gateVars, auditFile, keyVars, canonVars,
                        signerVars, lockVars, concVars, replayVars>>

SpecDrift == InitDrift /\ [][NextDrift]_vars

=============================================================================
